---- MODULE Spec2Model ----
(***************************************************************************)
(* get_vendor_summary.py: the vendor summary pipeline over a SQLite store. *)
(*                                                                         *)
(* The store holds the base tables vendor_invoice, purchases, sales, the   *)
(* price reference product_prices and the derived table                    *)
(* vendor_sales_summary.  One execution of the script connects, verifies   *)
(* the tables, runs the aggregation query, cleans the frame, writes it     *)
(* back and closes the connection.                                         *)
(*                                                                         *)
(* Values: amounts are integers; a SQL NULL (None / NaN in the frame) is   *)
(* the value NULL, a non-numeric string in a numeric column is TEXT.  A    *)
(* text value is a sequence of one-character strings, the SQL NULL of a    *)
(* text column is NullText.  A quotient is kept exact, as the record       *)
(* [num, den]; den = 0 stands for the inf / NaN a float division by zero   *)
(* gives in the frame.                                                     *)
(***************************************************************************)
EXTENDS Integers, Sequences, FiniteSets, TLC

VARIABLES
    exists,          \* base tables present in inventory.db
    purchase_cols,   \* PRAGMA table_info(purchases): the column names, in order
    purchases,       \* rows of purchases, in rowid order
    sales,           \* rows of sales
    vendor_invoice,  \* rows of vendor_invoice
    product_prices,  \* rows of product_prices
    summary,         \* vendor_sales_summary: [present, rows]
    tieBreak,        \* the order SQLite's plan leaves tied rows in
    runsLeft,        \* executions of the script still to come
    pc,              \* position of the running script
    conn,            \* the name conn: "unbound", "open" or "closed"
    error,           \* the exception the run is unwinding with, <<>> if none
    product_col,     \* the column detect_product_column found in purchases
    summary_df,      \* the frame create_vendor_summary returned
    clean_df,        \* the frame clean_data returned
    steps,           \* the steps of this run that completed
    existsAtStart,   \* exists when this run started
    summaryAtStart,  \* summary when this run started
    opens,           \* connections opened by this run
    closes,          \* connections closed by this run
    closeRaised,     \* the finally block raised a further error
    okRuns,          \* runs that completed ingest_db
    firstOut         \* summary after the first run that completed ingest_db

vars == <<exists, purchase_cols, purchases, sales, vendor_invoice, product_prices,
          summary, tieBreak, runsLeft, pc, conn, error, product_col, summary_df,
          clean_df, steps, existsAtStart, summaryAtStart, opens, closes, closeRaised,
          okRuns, firstOut>>

store == <<exists, purchase_cols, purchases, sales, vendor_invoice, product_prices,
           tieBreak>>

-----------------------------------------------------------------------------
(* Bounds of the model.                                                    *)

MaxRuns == 2      \* executions of the script in a row
MaxRows == 2      \* rows of the table a family of initial states varies
MaxCols == 2      \* candidate columns purchases may carry

-----------------------------------------------------------------------------
(* Values.                                                                 *)

NULL == 0 - 1000
TEXT == 0 - 2000
NullText == <<"NULL">>
None == "None"

FixedCols == <<"VendorNumber", "VendorName", "Brand", "Description",
               "PurchasePrice", "Quantity", "Dollars">>

RequiredTables == <<"vendor_invoice", "purchases", "sales", "product_prices">>

Candidates == <<"ProductID", "ItemID", "SKU", "ProductCode">>

Range(s) == {s[i] : i \in DOMAIN s}

RECURSIVE Flatten(_)
Flatten(ss) == IF ss = <<>> THEN <<>> ELSE Head(ss) \o Flatten(Tail(ss))

RECURSIVE AscSeq(_)
AscSeq(S) ==
    IF S = {} THEN <<>>
    ELSE LET m == CHOOSE x \in S : \A y \in S : x <= y
         IN  <<m>> \o AscSeq(S \ {m})

Reverse(s) == [i \in 1..Len(s) |-> s[Len(s) + 1 - i]]

\* a = b in SQL: never true of a NULL
SqlEq(a, b) == a # NULL /\ b # NULL /\ a = b

\* SUM(...) over a group: NULLs are skipped, the sum of no number is NULL
RECURSIVE SqlSum(_)
SqlSum(vals) ==
    IF vals = <<>> THEN NULL
    ELSE LET rest == SqlSum(Tail(vals))
         IN  IF Head(vals) = NULL THEN rest
             ELSE IF rest = NULL THEN Head(vals)
             ELSE Head(vals) + rest

-----------------------------------------------------------------------------
(* table_columns / detect_product_column (lines 30-42).                    *)

\* table_columns(conn, "purchases")
table_columns == purchase_cols

CandidateNames == Range(Candidates)

RECURSIVE ScanCandidates(_, _)
ScanCandidates(cands, columns) ==
    IF cands = <<>> THEN None
    ELSE IF \E i \in DOMAIN columns : columns[i] = Head(cands) THEN Head(cands)
    ELSE ScanCandidates(Tail(cands), columns)

\* a slip: the table's columns scanned in their own order
detect_in_column_order(columns) ==
    IF \E i \in DOMAIN columns : columns[i] \in CandidateNames
    THEN columns[CHOOSE i \in DOMAIN columns :
                    /\ columns[i] \in CandidateNames
                    /\ \A j \in 1..(i - 1) : columns[j] \notin CandidateNames]
    ELSE None

\* a slip: the first candidate returned when none is found
detect_default_first(columns) ==
    IF ScanCandidates(Candidates, columns) = None THEN Candidates[1]
    ELSE ScanCandidates(Candidates, columns)

detect_product_column(columns) == ScanCandidates(Candidates, columns)

-----------------------------------------------------------------------------
(* verify_and_create_tables (lines 45-71).                                 *)

\* missing = [t for t in required_tables if t not in existing_tables]
MissingTables(existing) == SelectSeq(RequiredTables, LAMBDA t : t \notin existing)

\* a slip: product_prices left in the list after it was created
KeepProductPrices(missing) == missing

\* missing.remove('product_prices'), done when product_prices was missing
StillMissing(missing) == SelectSeq(missing, LAMBDA t : t # "product_prices")

\* ', '.join(missing): the names with a separator between neighbours
RECURSIVE JoinComma(_)
JoinComma(names) ==
    IF names = <<>> THEN <<>>
    ELSE IF Len(names) = 1 THEN names
    ELSE <<Head(names), ", ">> \o JoinComma(Tail(names))

MissingTableError(missing) == <<"Missing required tables: ">> \o JoinComma(missing)

-----------------------------------------------------------------------------
(* create_vendor_summary (lines 74-134): the query, stage by stage.        *)

\* the value of column col in the purchases row p
ColVal(p, col) == p.ids[col]

\* LEFT JOIN product_prices pp ON p.{product_col} = pp.ProductID
PriceJoinOn(p, q, col) == SqlEq(ColVal(p, col), q.ProductID)

Enrich(p, price, volume) ==
    [VendorNumber |-> p.VendorNumber, VendorName |-> p.VendorName,
     Brand |-> p.Brand, Description |-> p.Description,
     PurchasePrice |-> p.PurchasePrice, ActualPrice |-> price, Volume |-> volume,
     Quantity |-> p.Quantity, Dollars |-> p.Dollars]

\* FROM purchases p {join_clause}, with {select_actual_price}, {select_volume}
EnrichedPurchases(P, PP, col) ==
    Flatten([i \in DOMAIN P |->
        IF col = None THEN <<Enrich(P[i], NULL, NULL)>>
        ELSE LET m == SelectSeq(PP, LAMBDA q : PriceJoinOn(P[i], q, col))
             IN  IF m = <<>> THEN <<Enrich(P[i], NULL, NULL)>>
                 ELSE [j \in DOMAIN m |-> Enrich(P[i], m[j].Price, m[j].Volume)]])

\* GROUP BY p.VendorNumber, p.VendorName, p.Brand, p.Description,
\*          p.PurchasePrice, ActualPrice, Volume
PurchaseKey(r) ==
    [VendorNumber |-> r.VendorNumber, VendorName |-> r.VendorName,
     Brand |-> r.Brand, Description |-> r.Description,
     PurchasePrice |-> r.PurchasePrice, ActualPrice |-> r.ActualPrice,
     Volume |-> r.Volume]

\* the rows that open a group (the first row with its key), in row order
FirstOfGroup(keys) ==
    AscSeq({i \in DOMAIN keys : \A j \in 1..(i - 1) : keys[j] # keys[i]})

PurchaseSummary(J) ==
    LET firsts == FirstOfGroup([i \in DOMAIN J |-> PurchaseKey(J[i])])
    IN  [n \in DOMAIN firsts |->
            LET k == PurchaseKey(J[firsts[n]])
                g == SelectSeq(J, LAMBDA r : PurchaseKey(r) = k)
            IN  [VendorNumber |-> k.VendorNumber, VendorName |-> k.VendorName,
                 Brand |-> k.Brand, Description |-> k.Description,
                 PurchasePrice |-> k.PurchasePrice, ActualPrice |-> k.ActualPrice,
                 Volume |-> k.Volume,
                 TotalPurchaseQuantity |-> SqlSum([i \in DOMAIN g |-> g[i].Quantity]),
                 TotalPurchaseDollars |-> SqlSum([i \in DOMAIN g |-> g[i].Dollars])]]

SalesKey(r) == [VendorNo |-> r.VendorNo, Brand |-> r.Brand]

SalesSummary(S) ==
    LET firsts == FirstOfGroup([i \in DOMAIN S |-> SalesKey(S[i])])
    IN  [n \in DOMAIN firsts |->
            LET k == SalesKey(S[firsts[n]])
                g == SelectSeq(S, LAMBDA r : SalesKey(r) = k)
            IN  [VendorNo |-> k.VendorNo, Brand |-> k.Brand,
                 TotalSalesQuantity |-> SqlSum([i \in DOMAIN g |-> g[i].SalesQuantity]),
                 TotalSalesDollars |-> SqlSum([i \in DOMAIN g |-> g[i].SalesDollars])]]

FreightKey(r) == r.VendorNumber

FreightSummary(VI) ==
    LET firsts == FirstOfGroup([i \in DOMAIN VI |-> FreightKey(VI[i])])
    IN  [n \in DOMAIN firsts |->
            LET k == FreightKey(VI[firsts[n]])
                g == SelectSeq(VI, LAMBDA r : FreightKey(r) = k)
            IN  [VendorNumber |-> k,
                 FreightCost |-> SqlSum([i \in DOMAIN g |-> g[i].Freight])]]

\* a slip: the sales join on the vendor alone
SalesJoinOnVendor(ps, ss) == SqlEq(ps.VendorNumber, ss.VendorNo)

\* ON ps.VendorNumber = ss.VendorNo AND ps.Brand = ss.Brand
SalesJoinOn(ps, ss) == SqlEq(ps.VendorNumber, ss.VendorNo) /\ SqlEq(ps.Brand, ss.Brand)

\* ON ps.VendorNumber = fs.VendorNumber
FreightJoinOn(ps, fs) == SqlEq(ps.VendorNumber, fs.VendorNumber)

Project(ps, tsq, tsd, freight) ==
    [VendorNumber |-> ps.VendorNumber, VendorName |-> ps.VendorName,
     Brand |-> ps.Brand, Description |-> ps.Description,
     PurchasePrice |-> ps.PurchasePrice, ActualPrice |-> ps.ActualPrice,
     Volume |-> ps.Volume,
     TotalPurchaseQuantity |-> ps.TotalPurchaseQuantity,
     TotalPurchaseDollars |-> ps.TotalPurchaseDollars,
     TotalSalesQuantity |-> tsq, TotalSalesDollars |-> tsd, FreightCost |-> freight]

\* a slip: JOIN for LEFT JOIN
InnerJoinSales(PS, SS) ==
    Flatten([i \in DOMAIN PS |->
        LET m == SelectSeq(SS, LAMBDA ss : SalesJoinOn(PS[i], ss))
        IN  [j \in DOMAIN m |->
                Project(PS[i], m[j].TotalSalesQuantity, m[j].TotalSalesDollars, NULL)]])

\* FROM PurchaseSummary ps LEFT JOIN SalesSummary ss ON ...
JoinSales(PS, SS) ==
    Flatten([i \in DOMAIN PS |->
        LET m == SelectSeq(SS, LAMBDA ss : SalesJoinOn(PS[i], ss))
        IN  IF m = <<>> THEN <<Project(PS[i], NULL, NULL, NULL)>>
            ELSE [j \in DOMAIN m |->
                    Project(PS[i], m[j].TotalSalesQuantity, m[j].TotalSalesDollars, NULL)]])

\* ... LEFT JOIN FreightSummary fs ON ...
JoinFreight(rows, FS) ==
    Flatten([i \in DOMAIN rows |->
        LET m == SelectSeq(FS, LAMBDA fs : FreightJoinOn(rows[i], fs))
        IN  IF m = <<>> THEN <<rows[i]>>
            ELSE [j \in DOMAIN m |-> [rows[i] EXCEPT !.FreightCost = m[j].FreightCost]]])

\* a sorts strictly before b under ORDER BY ... DESC: the larger number first,
\* a NULL after every number
SortsBefore(a, b) == a # NULL /\ (b = NULL \/ a > b)

RECURSIVE InsertDesc(_, _)
InsertDesc(r, sorted) ==
    IF sorted = <<>> THEN <<r>>
    ELSE IF SortsBefore(r.TotalPurchaseDollars, Head(sorted).TotalPurchaseDollars)
         THEN <<r>> \o sorted
         ELSE <<Head(sorted)>> \o InsertDesc(r, Tail(sorted))

\* a slip: the ORDER BY clause left out
NoOrderBy(rows) == rows

\* ORDER BY ps.TotalPurchaseDollars DESC
RECURSIVE OrderByPurchaseDollars(_)
OrderByPurchaseDollars(rows) ==
    IF rows = <<>> THEN <<>>
    ELSE InsertDesc(rows[Len(rows)],
                    OrderByPurchaseDollars(SubSeq(rows, 1, Len(rows) - 1)))

\* The order rows reach the sorter in is the plan's; the same statement over the
\* same database gets the same plan, so it is fixed with the store.
PlanOrder(rows, tie) == IF tie = "rev" THEN Reverse(rows) ELSE rows

create_vendor_summary(cols, P, S, VI, PP, tie) ==
    LET col == detect_product_column(cols)
        ps == PurchaseSummary(EnrichedPurchases(P, PP, col))
        joined == JoinFreight(JoinSales(ps, SalesSummary(S)), FreightSummary(VI))
    IN  OrderByPurchaseDollars(PlanOrder(joined, tie))

-----------------------------------------------------------------------------
(* clean_data (lines 137-152).                                             *)

\* df.fillna(0)
FillNa(x) == IF x = NULL THEN 0 ELSE x

\* pd.to_numeric(..., errors='coerce').fillna(0)
ToNumeric(x) == FillNa(IF x = TEXT THEN NULL ELSE x)

RECURSIVE LStrip(_)
LStrip(s) == IF s # <<>> /\ Head(s) = " " THEN LStrip(Tail(s)) ELSE s

\* str.strip()
Strip(s) == Reverse(LStrip(Reverse(LStrip(s))))

\* fillna(0) then astype(str).str.strip()
CleanText(s) == IF s = NullText THEN <<"0">> ELSE Strip(s)

\* a slip: the zero denominator kept
KeepZero(x) == x

\* x.replace(0, 1)
SafeDenominator(x) == IF x = 0 THEN 1 ELSE x

Divide(n, d) == [num |-> n, den |-> d]

CleanRow(r) ==
    LET tpq == FillNa(r.TotalPurchaseQuantity)
        tpd == FillNa(r.TotalPurchaseDollars)
        tsq == FillNa(r.TotalSalesQuantity)
        tsd == FillNa(r.TotalSalesDollars)
        gp  == tsd - tpd
    IN  [VendorNumber |-> FillNa(r.VendorNumber),
         VendorName |-> CleanText(r.VendorName),
         Brand |-> FillNa(r.Brand),
         Description |-> CleanText(r.Description),
         PurchasePrice |-> FillNa(r.PurchasePrice),
         ActualPrice |-> FillNa(r.ActualPrice),
         Volume |-> ToNumeric(FillNa(r.Volume)),
         TotalPurchaseQuantity |-> tpq,
         TotalPurchaseDollars |-> tpd,
         TotalSalesQuantity |-> tsq,
         TotalSalesDollars |-> tsd,
         FreightCost |-> FillNa(r.FreightCost),
         GrossProfit |-> gp,
         ProfitMargin |-> Divide(gp, SafeDenominator(tsd)),
         StockTurnover |-> Divide(tsq, SafeDenominator(tpq)),
         SalesToPurchaseRatio |-> Divide(tsd, SafeDenominator(tpd))]

clean_data(df) == [i \in DOMAIN df |-> CleanRow(df[i])]

-----------------------------------------------------------------------------
(* ingest_db (lines 155-158): df.to_sql(table_name, conn, if_exists='replace').  *)
(* On a sqlite3 connection pandas runs DROP TABLE (when the table exists), *)
(* CREATE TABLE and the INSERTs as three units: the two DDL statements     *)
(* take effect as they run, the INSERTs are one transaction that is rolled *)
(* back when it fails.  failAt is the statement the store refuses, "none"  *)
(* when it refuses none.                                                   *)

NoTable == [present |-> FALSE, rows |-> <<>>]

\* a slip: if_exists='append'
AppendRows(old, df) == old \o df

\* if_exists='replace': none of the old rows is kept
ReplaceRows(old, df) == df

to_sql(old, df, failAt) ==
    IF failAt = "drop" THEN old
    ELSE IF failAt = "create" THEN NoTable
    ELSE IF failAt = "insert" THEN [present |-> TRUE, rows |-> <<>>]
    ELSE [present |-> TRUE, rows |-> ReplaceRows(old.rows, df)]

-----------------------------------------------------------------------------
(* The stores the script is run against.                                   *)

Vendors == {1, 2}
Brands == {1, 2}

VendorNameOf(v) == IF v = 1 THEN <<" ", "A", " ">> ELSE <<"B">>

PurchaseRow(v, b, desc, ids, q, d) ==
    [VendorNumber |-> v, VendorName |-> VendorNameOf(v), Brand |-> b,
     Description |-> desc, PurchasePrice |-> 1, ids |-> ids,
     Quantity |-> q, Dollars |-> d]

\* every candidate column of the row carries the same product id
SameId(pid) == [c \in CandidateNames |-> pid]

SalesRow(v, b, q, d) ==
    [VendorNo |-> v, Brand |-> b, SalesQuantity |-> q, SalesDollars |-> d]

InvoiceRow(v, f) == [VendorNumber |-> v, Freight |-> f]

PriceRow(id, p, vol) == [ProductID |-> id, Brand |-> 1, Price |-> p, Volume |-> vol]

SeqsUpTo(S, n) == UNION {[1..k -> S] : k \in 0..n}

\* a sample store: two purchase groups tie on TotalPurchaseDollars, the
\* candidate columns of a row carry different ids, one Description is NULL
SamplePurchases ==
    <<PurchaseRow(1, 1, <<"D", " ">>,
                  [c \in CandidateNames |-> IF c = "ProductID" THEN 1 ELSE 2], 1, 2),
      PurchaseRow(1, 1, <<"D", " ">>,
                  [c \in CandidateNames |-> IF c = "ProductID" THEN 1 ELSE 2], 1, 2),
      PurchaseRow(2, 1, <<"D", " ">>,
                  [c \in CandidateNames |-> IF c = "ProductID" THEN 2 ELSE 1], 3, 4),
      PurchaseRow(2, 2, NullText, SameId(NULL), 0, 0)>>

FewPurchases ==
    <<PurchaseRow(1, 1, <<"D">>, SameId(1), 2, 3),
      PurchaseRow(2, 2, <<"D">>, SameId(2), 0, 0)>>

SampleSales == <<SalesRow(1, 1, 2, 5), SalesRow(1, 1, 1, 1), SalesRow(1, 2, 4, 4)>>

SampleInvoices == <<InvoiceRow(1, 3), InvoiceRow(1, 2)>>

SamplePrices == <<PriceRow(1, 5, 7), PriceRow(2, 6, TEXT)>>

OldTable ==
    [present |-> TRUE,
     rows |-> <<[VendorNumber |-> 9, VendorName |-> <<"O">>, Brand |-> 9,
                 Description |-> <<"O">>, PurchasePrice |-> 9, ActualPrice |-> 9,
                 Volume |-> 9, TotalPurchaseQuantity |-> 9,
                 TotalPurchaseDollars |-> 9, TotalSalesQuantity |-> 9,
                 TotalSalesDollars |-> 9, FreightCost |-> 9, GrossProfit |-> 0,
                 ProfitMargin |-> Divide(0, 9), StockTurnover |-> Divide(9, 9),
                 SalesToPurchaseRatio |-> Divide(9, 9)]>>]

AllTables == Range(RequiredTables)

\* the candidate columns of purchases: up to MaxCols of them, in any order
CandidateLists ==
    {cs \in SeqsUpTo(CandidateNames, MaxCols) :
        \A i, j \in DOMAIN cs : i # j => cs[i] # cs[j]}

PurchaseRows ==
    {PurchaseRow(v, b, <<"D">>, SameId(1), qd[1], qd[2]) :
        v \in Vendors, b \in Brands,
        qd \in {<<0, NULL>>, <<1, 0 - 1>>, <<0, 0>>, <<1, 1>>}}

SalesRows ==
    {SalesRow(v, b, qd[1], qd[2]) :
        v \in Vendors, b \in Brands, qd \in {<<NULL, NULL>>, <<0, 0>>, <<1, 2>>}}

InvoiceRows == {InvoiceRow(v, f) : v \in Vendors, f \in {NULL, 0, 3}}

PriceRows ==
    {PriceRow(id, p, vol) : id \in {1, 2}, p \in {NULL, 5}, vol \in {NULL, TEXT, 0, 7}}

\* ProductID INT PRIMARY KEY: no two rows of product_prices share a ProductID
PriceTables ==
    {t \in SeqsUpTo(PriceRows, MaxRows) :
        \A i, j \in DOMAIN t : i # j => t[i].ProductID # t[j].ProductID}

RunInit(left) ==
    /\ runsLeft = left
    /\ pc = "start"
    /\ conn = "unbound"
    /\ error = <<>>
    /\ product_col = None
    /\ summary_df = <<>>
    /\ clean_df = <<>>
    /\ steps = {}
    /\ existsAtStart = exists
    /\ summaryAtStart = summary
    /\ opens = 0
    /\ closes = 0
    /\ closeRaised = FALSE
    /\ okRuns = 0
    /\ firstOut = NoTable

\* any set of base tables present, a table that is absent holding no row; the
\* script is run MaxRuns times
InitSchema ==
    /\ exists \in SUBSET AllTables
    /\ purchase_cols = FixedCols \o <<"SKU", "ProductID">>
    /\ purchases = IF "purchases" \in exists THEN SamplePurchases ELSE <<>>
    /\ sales = IF "sales" \in exists THEN SampleSales ELSE <<>>
    /\ vendor_invoice = IF "vendor_invoice" \in exists THEN SampleInvoices ELSE <<>>
    /\ product_prices = IF "product_prices" \in exists THEN SamplePrices ELSE <<>>
    /\ summary \in {NoTable, OldTable}
    /\ tieBreak \in {"fwd", "rev"}
    /\ RunInit(MaxRuns - 1)

InitColumns ==
    /\ exists = AllTables
    /\ purchase_cols \in {FixedCols \o cs : cs \in CandidateLists}
    /\ purchases = SamplePurchases
    /\ sales = SampleSales
    /\ vendor_invoice = SampleInvoices
    /\ product_prices = SamplePrices
    /\ summary = OldTable
    /\ tieBreak \in {"fwd", "rev"}
    /\ RunInit(0)

InitPurchases ==
    /\ exists = AllTables
    /\ purchase_cols \in {FixedCols, FixedCols \o <<"ProductID">>}
    /\ purchases \in SeqsUpTo(PurchaseRows, MaxRows)
    /\ sales \in {SampleSales, <<SalesRow(2, 1, 0, 0)>>}
    /\ vendor_invoice = SampleInvoices
    /\ product_prices = SamplePrices
    /\ summary = OldTable
    /\ tieBreak \in {"fwd", "rev"}
    /\ RunInit(0)

InitSales ==
    /\ exists = AllTables
    /\ purchase_cols = FixedCols \o <<"ProductID">>
    /\ purchases \in {SamplePurchases, FewPurchases}
    /\ sales \in SeqsUpTo(SalesRows, MaxRows)
    /\ vendor_invoice = SampleInvoices
    /\ product_prices = SamplePrices
    /\ summary = OldTable
    /\ tieBreak = "fwd"
    /\ RunInit(0)

InitInvoices ==
    /\ exists = AllTables
    /\ purchase_cols = FixedCols \o <<"ProductID">>
    /\ purchases \in {SamplePurchases, FewPurchases}
    /\ sales = SampleSales
    /\ vendor_invoice \in SeqsUpTo(InvoiceRows, MaxRows)
    /\ product_prices = SamplePrices
    /\ summary = OldTable
    /\ tieBreak = "fwd"
    /\ RunInit(0)

InitPrices ==
    /\ exists = AllTables
    /\ purchase_cols \in {FixedCols, FixedCols \o <<"ProductID">>,
                          FixedCols \o <<"ProductCode", "SKU">>}
    /\ purchases \in {SamplePurchases, FewPurchases}
    /\ sales = SampleSales
    /\ vendor_invoice = SampleInvoices
    /\ product_prices \in PriceTables
    /\ summary = OldTable
    /\ tieBreak = "fwd"
    /\ RunInit(0)

Init ==
    \/ InitSchema
    \/ InitColumns
    \/ InitPurchases
    \/ InitSales
    \/ InitInvoices
    \/ InitPrices

-----------------------------------------------------------------------------
(* The script (lines 164-208), one action per step of the try block.       *)

\* conn = sqlite3.connect('inventory.db')
Connect ==
    /\ pc = "start"
    /\ conn' = "open"
    /\ opens' = opens + 1
    /\ steps' = steps \cup {"connect"}
    /\ pc' = "verify"
    /\ UNCHANGED <<store, summary, runsLeft, error, product_col, summary_df, clean_df,
                   existsAtStart, summaryAtStart, closes, closeRaised, okRuns,
                   firstOut>>

\* sqlite3.connect raises: conn is never assigned
ConnectFail ==
    /\ pc = "start"
    /\ error' = <<"unable to open database file">>
    /\ pc' = "finally"
    /\ UNCHANGED <<store, summary, runsLeft, conn, product_col, summary_df, clean_df, steps,
                   existsAtStart, summaryAtStart, opens, closes, closeRaised,
                   okRuns, firstOut>>

\* verify_and_create_tables(conn)
VerifyAndCreateTables ==
    /\ pc = "verify"
    /\ LET missing == MissingTables(exists)
           create  == "product_prices" \in Range(missing)
           left    == IF create THEN StillMissing(missing) ELSE missing
       IN  /\ exists' = IF create THEN exists \cup {"product_prices"} ELSE exists
           /\ IF left # <<>>
              THEN /\ error' = MissingTableError(left)
                   /\ pc' = "finally"
                   /\ steps' = steps
              ELSE /\ error' = error
                   /\ pc' = "query"
                   /\ steps' = steps \cup {"verify"}
    /\ UNCHANGED <<purchase_cols, purchases, sales, vendor_invoice, product_prices,
                   tieBreak, summary, runsLeft, conn, product_col, summary_df, clean_df,
                   existsAtStart, summaryAtStart, opens, closes, closeRaised,
                   okRuns, firstOut>>

\* summary_df = create_vendor_summary(conn)
CreateVendorSummary ==
    /\ pc = "query"
    /\ product_col' = detect_product_column(table_columns)
    /\ summary_df' = create_vendor_summary(table_columns, purchases, sales,
                                           vendor_invoice, product_prices, tieBreak)
    /\ steps' = steps \cup {"query"}
    /\ pc' = "clean"
    /\ UNCHANGED <<store, summary, runsLeft, conn, error, clean_df, existsAtStart,
                   summaryAtStart, opens, closes, closeRaised, okRuns, firstOut>>

\* pd.read_sql_query raises a store error
QueryFail ==
    /\ pc = "query"
    /\ error' = <<"store error">>
    /\ pc' = "finally"
    /\ UNCHANGED <<store, summary, runsLeft, conn, product_col, summary_df, clean_df, steps,
                   existsAtStart, summaryAtStart, opens, closes, closeRaised,
                   okRuns, firstOut>>

\* clean_df = clean_data(summary_df)
CleanData ==
    /\ pc = "clean"
    /\ clean_df' = clean_data(summary_df)
    /\ steps' = steps \cup {"clean"}
    /\ pc' = "ingest"
    /\ UNCHANGED <<store, summary, runsLeft, conn, error, product_col, summary_df,
                   existsAtStart, summaryAtStart, opens, closes, closeRaised,
                   okRuns, firstOut>>

\* ingest_db(clean_df, 'vendor_sales_summary', conn)
IngestDb ==
    /\ pc = "ingest"
    /\ \E failAt \in {"none", "drop", "create", "insert"} :
        /\ failAt = "drop" => summary.present
        /\ summary' = to_sql(summary, clean_df, failAt)
        /\ IF failAt = "none"
           THEN /\ steps' = steps \cup {"ingest"}
                /\ error' = error
                /\ okRuns' = okRuns + 1
                /\ firstOut' = IF okRuns = 0 THEN summary' ELSE firstOut
           ELSE /\ steps' = steps
                /\ error' = <<"store error">>
                /\ okRuns' = okRuns
                /\ firstOut' = firstOut
    /\ pc' = "finally"
    /\ UNCHANGED <<store, runsLeft, conn, product_col, summary_df, clean_df, existsAtStart,
                   summaryAtStart, opens, closes, closeRaised>>

\* finally: conn.close()
Finally ==
    /\ pc = "finally"
    /\ IF conn = "unbound"
       THEN /\ closeRaised' = TRUE
            /\ UNCHANGED <<conn, closes>>
       ELSE /\ conn' = "closed"
            /\ closes' = closes + 1
            /\ UNCHANGED closeRaised
    /\ pc' = "done"
    /\ UNCHANGED <<store, summary, runsLeft, error, product_col, summary_df, clean_df, steps,
                   existsAtStart, summaryAtStart, opens, okRuns, firstOut>>

\* the script is executed again, against the store the last run left
Rerun ==
    /\ pc = "done"
    /\ runsLeft > 0
    /\ runsLeft' = runsLeft - 1
    /\ pc' = "start"
    /\ conn' = "unbound"
    /\ error' = <<>>
    /\ product_col' = None
    /\ summary_df' = <<>>
    /\ clean_df' = <<>>
    /\ steps' = {}
    /\ existsAtStart' = exists
    /\ summaryAtStart' = summary
    /\ opens' = 0
    /\ closes' = 0
    /\ closeRaised' = FALSE
    /\ UNCHANGED <<store, summary, okRuns, firstOut>>

Next ==
    \/ Connect
    \/ ConnectFail
    \/ VerifyAndCreateTables
    \/ CreateVendorSummary
    \/ QueryFail
    \/ CleanData
    \/ IngestDb
    \/ Finally
    \/ Rerun

Spec == Init /\ [][Next]_vars

-----------------------------------------------------------------------------
(* Properties.                                                             *)

CoreTables == {"vendor_invoice", "purchases", "sales"}

\* verify_and_create_tables has returned or raised in this run
Verified == "connect" \in steps /\ pc \notin {"start", "verify"}

VerifyFailed == Verified /\ "verify" \notin steps

\* the table names an error message lists: every second token after the prefix
NamedIn(msg) == {msg[i] : i \in {j \in DOMAIN msg : j % 2 = 0}}

\* C1: verification fails exactly when one of vendor_invoice, purchases, sales is
\* absent; the error names exactly the absent ones of the three, separated by
\* ", ", never product_prices; product_prices exists after verification, whether
\* it succeeded or failed.
C1_MissingTableGate ==
    Verified =>
        /\ VerifyFailed <=> (CoreTables \ existsAtStart # {})
        /\ VerifyFailed =>
            /\ error[1] = "Missing required tables: "
            /\ NamedIn(error) = CoreTables \ existsAtStart
            /\ Len(error) = 2 * Cardinality(CoreTables \ existsAtStart)
            /\ \A j \in DOMAIN error : (j > 1 /\ j % 2 = 1) => error[j] = ", "
        /\ "product_prices" \in exists

C1_Witness ==
    /\ VerifyFailed
    /\ existsAtStart = {"vendor_invoice", "purchases"}
    /\ error = <<"Missing required tables: ", "sales">>
    /\ "product_prices" \in exists

Priority(c) == CHOOSE i \in DOMAIN Candidates : Candidates[i] = c

PresentCandidates == CandidateNames \cap Range(purchase_cols)

\* C2: detect_product_column returns the candidate of highest priority among
\* those present in the columns, whatever their order there, and None exactly
\* when no candidate is present.
C2_DetectPriority ==
    "query" \in steps =>
        /\ product_col = None <=> PresentCandidates = {}
        /\ PresentCandidates # {} =>
            /\ product_col \in PresentCandidates
            /\ \A c \in PresentCandidates : Priority(product_col) <= Priority(c)

C2_Witness ==
    /\ "query" \in steps
    /\ \E i, j \in DOMAIN purchase_cols :
        i < j /\ purchase_cols[i] = "SKU" /\ purchase_cols[j] = "ProductID"
    /\ product_col = "ProductID"

\* q is the quotient n / d, d replaced by 1 when it is 0
QuotientIs(q, n, d) ==
    /\ q.den # 0
    /\ IF d # 0 THEN q.num * d = n * q.den ELSE q.num = n * q.den

\* C3: clean_data drops no row; in every row the null aggregates are 0 and each
\* ratio is numerator / denominator, the numerator itself when the denominator
\* is 0, never null or infinite.
C3_SafeDivision ==
    "clean" \in steps =>
        /\ Len(clean_df) = Len(summary_df)
        /\ \A i \in DOMAIN clean_df :
            LET r == clean_df[i]
                raw == summary_df[i]
            IN  /\ r.TotalSalesDollars =
                     (IF raw.TotalSalesDollars = NULL THEN 0 ELSE raw.TotalSalesDollars)
                /\ r.TotalPurchaseDollars =
                     (IF raw.TotalPurchaseDollars = NULL THEN 0
                      ELSE raw.TotalPurchaseDollars)
                /\ r.TotalSalesQuantity =
                     (IF raw.TotalSalesQuantity = NULL THEN 0 ELSE raw.TotalSalesQuantity)
                /\ r.TotalPurchaseQuantity =
                     (IF raw.TotalPurchaseQuantity = NULL THEN 0
                      ELSE raw.TotalPurchaseQuantity)
                /\ r.GrossProfit = r.TotalSalesDollars - r.TotalPurchaseDollars
                /\ QuotientIs(r.ProfitMargin, r.GrossProfit, r.TotalSalesDollars)
                /\ QuotientIs(r.StockTurnover, r.TotalSalesQuantity,
                              r.TotalPurchaseQuantity)
                /\ QuotientIs(r.SalesToPurchaseRatio, r.TotalSalesDollars,
                              r.TotalPurchaseDollars)

C3_Witness ==
    /\ "clean" \in steps
    /\ \E i \in DOMAIN clean_df :
        /\ clean_df[i].TotalPurchaseDollars = 0
        /\ clean_df[i].TotalSalesDollars = 6
        /\ clean_df[i].SalesToPurchaseRatio = [num |-> 6, den |-> 1]
    /\ \E i \in DOMAIN clean_df :
        /\ summary_df[i].TotalSalesDollars = NULL
        /\ clean_df[i].ProfitMargin.den = 1

HasSales(v, b) == \E i \in DOMAIN sales : sales[i].VendorNo = v /\ sales[i].Brand = b

HasInvoice(v) == \E i \in DOMAIN vendor_invoice : vendor_invoice[i].VendorNumber = v

\* C4: every (VendorNumber, Brand) of a purchase row has a row in the output
\* (the cleaned frame, and the table once written); a row without sales for its
\* vendor and brand has TotalSalesQuantity = TotalSalesDollars = 0, a row whose
\* vendor has no invoice has FreightCost = 0.
C4_OuterJoinComplete ==
    "clean" \in steps =>
        /\ \A p \in DOMAIN purchases : \E i \in DOMAIN clean_df :
            /\ clean_df[i].VendorNumber = purchases[p].VendorNumber
            /\ clean_df[i].Brand = purchases[p].Brand
        /\ \A i \in DOMAIN clean_df :
            LET r == clean_df[i]
            IN  /\ ~HasSales(r.VendorNumber, r.Brand) =>
                     r.TotalSalesQuantity = 0 /\ r.TotalSalesDollars = 0
                /\ ~HasInvoice(r.VendorNumber) => r.FreightCost = 0
        /\ "ingest" \in steps => summary.rows = clean_df

C4_Witness ==
    /\ "ingest" \in steps
    /\ \E i \in DOMAIN summary.rows :
        /\ ~HasSales(summary.rows[i].VendorNumber, summary.rows[i].Brand)
        /\ ~HasInvoice(summary.rows[i].VendorNumber)
        /\ summary.rows[i].TotalPurchaseQuantity > 0
        /\ summary.rows[i].TotalSalesDollars = 0
        /\ summary.rows[i].FreightCost = 0

C6_AllOrNothing ==
    pc = "done" =>
        \/ "ingest" \in steps /\ summary = [present |-> TRUE, rows |-> clean_df]
        \/ "ingest" \notin steps /\ summary = summaryAtStart

\* C7: every execution opens the connection once and closes it exactly once,
\* and the closing step raises no further error.
C7_ClosedOnce ==
    pc = "done" => opens = 1 /\ closes = 1 /\ ~closeRaised

\* C8: when purchases has no candidate column no price is joined: the output is
\* what it is with product_prices empty, and every row has ActualPrice = 0 and
\* Volume = 0 after clean_data.
C8_NoEnrichment ==
    ("clean" \in steps /\ PresentCandidates = {}) =>
        /\ \A i \in DOMAIN clean_df :
            clean_df[i].ActualPrice = 0 /\ clean_df[i].Volume = 0
        /\ clean_df = clean_data(create_vendor_summary(purchase_cols, purchases,
                                     sales, vendor_invoice, <<>>, tieBreak))

\* rows are output although a price row carries the id of a purchase row
C8_Witness ==
    /\ "clean" \in steps
    /\ PresentCandidates = {}
    /\ clean_df # <<>>
    /\ \E p \in DOMAIN purchases, q \in DOMAIN product_prices :
        /\ purchases[p].ids["ProductID"] = product_prices[q].ProductID
        /\ product_prices[q].Price = 5
        /\ product_prices[q].Volume = 7

\* C9, as claimed: consecutive output rows have non-increasing
\* TotalPurchaseDollars.
C9_SortedOutput ==
    "clean" \in steps =>
        \A i \in 1..(Len(clean_df) - 1) :
            clean_df[i].TotalPurchaseDollars >= clean_df[i + 1].TotalPurchaseDollars

\* C9, amended: the output keeps the order of ORDER BY TotalPurchaseDollars DESC,
\* in which a NULL total comes after every number: of two consecutive rows the
\* later one had a NULL total in the query result (0 after clean_data), or
\* neither had and the earlier total is greater than or equal to the later one.
C9_SortedNullsLast ==
    "clean" \in steps =>
        /\ Len(clean_df) = Len(summary_df)
        /\ \A i \in 1..(Len(clean_df) - 1) :
            \/ summary_df[i + 1].TotalPurchaseDollars = NULL
            \/ /\ summary_df[i].TotalPurchaseDollars # NULL
               /\ clean_df[i].TotalPurchaseDollars >= clean_df[i + 1].TotalPurchaseDollars
        /\ "ingest" \in steps => summary.rows = clean_df

C9_Witness ==
    /\ "ingest" \in steps
    /\ \E i \in 1..(Len(summary.rows) - 1) :
        /\ summary_df[i].TotalPurchaseDollars < 0
        /\ summary_df[i].TotalPurchaseDollars # NULL
        /\ summary_df[i + 1].TotalPurchaseDollars = NULL
        /\ summary.rows[i].TotalPurchaseDollars < summary.rows[i + 1].TotalPurchaseDollars

RECURSIVE Total(_)
Total(vals) ==
    IF vals = <<>> THEN 0
    ELSE (IF Head(vals) = NULL THEN 0 ELSE Head(vals)) + Total(Tail(vals))

\* the (ActualPrice, Volume) pairs the price reference gives purchase row p
PricesOf(p) ==
    LET m == {q \in DOMAIN product_prices :
                 /\ product_col # None
                 /\ p.ids[product_col] # NULL
                 /\ p.ids[product_col] = product_prices[q].ProductID}
    IN  IF m = {} THEN {<<NULL, NULL>>}
        ELSE {<<product_prices[q].Price, product_prices[q].Volume>> : q \in m}

\* output row r is the group of purchase row p
GroupOf(r, p) ==
    /\ r.VendorNumber = p.VendorNumber
    /\ r.VendorName = p.VendorName
    /\ r.Brand = p.Brand
    /\ r.Description = p.Description
    /\ r.PurchasePrice = p.PurchasePrice
    /\ <<r.ActualPrice, r.Volume>> \in PricesOf(p)

\* C10: with ProductID a key of product_prices the query result has one row per
\* purchase grouping key, every purchase row belongs to exactly one output row,
\* every output row to some purchase row, and the purchase totals over the
\* output equal the totals over purchases.
C10_NoFanOut ==
    "query" \in steps =>
        /\ \A i, j \in DOMAIN summary_df :
            i # j => PurchaseKey(summary_df[i]) # PurchaseKey(summary_df[j])
        /\ \A p \in DOMAIN purchases :
            Cardinality({i \in DOMAIN summary_df : GroupOf(summary_df[i], purchases[p])}) = 1
        /\ \A i \in DOMAIN summary_df :
            \E p \in DOMAIN purchases : GroupOf(summary_df[i], purchases[p])
        /\ Total([i \in DOMAIN summary_df |-> summary_df[i].TotalPurchaseQuantity])
             = Total([p \in DOMAIN purchases |-> purchases[p].Quantity])
        /\ Total([i \in DOMAIN summary_df |-> summary_df[i].TotalPurchaseDollars])
             = Total([p \in DOMAIN purchases |-> purchases[p].Dollars])

\* two purchase rows in one group, priced, with two sales rows and two invoices
C10_Witness ==
    /\ "query" \in steps
    /\ product_col = "ProductID"
    /\ \E i \in DOMAIN summary_df :
        /\ summary_df[i].ActualPrice = 5
        /\ summary_df[i].TotalPurchaseQuantity = 2
        /\ summary_df[i].TotalSalesDollars = 6
        /\ summary_df[i].FreightCost = 5

====
